---- MODULE Spec2Model ----
(***************************************************************************)
(* A model of giorgk/NPSAT's steady-state groundwater flow driver          *)
(* (src/myheaders/steady_state.h, class GWFLOW) and of its stream source   *)
(* catalog (src/myheaders/streams.h, class Streams).                       *)
(*                                                                         *)
(* Spec        : the GWFLOW driver, one pc per MPI process.                *)
(* SpecStreams : the Streams catalog and its queries.                      *)
(***************************************************************************)
EXTENDS Integers, Sequences, FiniteSets, TLC

(***************************************************************************)
(* Bounds of the model.                                                    *)
(***************************************************************************)
NProcs == 2
NCells == 4
MaxIter == 2
MaxDegree == 2
MaxSeg == 2
MaxTriangles == 4
MaxTree == 8

Procs == 0 .. (NProcs - 1)
Cells == 1 .. NCells

\* The boundary ids a mesh face can carry; 3 and 5 are the ids assemble() names.
BoundaryIds == {3, 4, 5}

VARIABLES
    \* ---- GWFLOW (steady_state.h) ----
    dim,                        \* template parameter <int dim>
    fe_degree,                  \* fe.degree of the FE_Q the solver was constructed with
    quadrature,                 \* per process: the order of the face quadrature last
                                \* built by assemble and by refine (0: none yet)
    top_boundary_ids,           \* GWFLOW::top_boundary_ids (constructor argument)
    streamCell,                 \* the cell whose top face a loaded stream crosses (0: none)
    iter,                       \* number of Simulate/Simulate_refine calls started
    kind,                       \* which of the two entry points the current call is
    pc,                         \* per process: the statement about to be executed
    trace,                      \* per process: the phases executed in the current call
    meshGen,                    \* per process: number of refinements of the triangulation
    built,                      \* per process: the mesh generation each object was built on
    system_rhs,                 \* per process: the operations applied to system_rhs
    system_matrix,              \* per process: the operations applied to system_matrix
    locally_relevant_solution,  \* per process: the published solution
    solveOutcome,               \* outcome of the collective CG solve of the current call
    pcout,                      \* per process: iterations for which "Solved in" was written
    files,                      \* files written by output() and Simulate_refine()
    \* ---- Streams (streams.h); list positions are counted from 1 ----
    N_seg, A, B, Q_rate, length, width,
    stream_triangles, stream_ids, stream_tree,
    river_outline, Xmax, Xmin, Ymin, Ymax, Xoutline, Youtline,
    streamPc,                   \* "ready", or "crashed" once an out-of-range read faulted
    outOfRange,                 \* the out-of-range element reads made so far
    warnings,                   \* number of near-zero-length warnings written to cerr
    call,                       \* the last call of a Streams method and what it returned
    xc, yc, Q,                  \* the caller's output lists of get_stream_recharge
    stream_rate                 \* what the last get_stream_rate returned

flowVars == <<dim, fe_degree, quadrature, top_boundary_ids, streamCell, iter, kind, pc, trace, meshGen, built,
              system_rhs, system_matrix, locally_relevant_solution, solveOutcome,
              pcout, files>>

catalogVars == <<N_seg, A, B, Q_rate, length, width, stream_triangles, stream_ids,
                 stream_tree, river_outline, Xmax, Xmin, Ymin, Ymax, Xoutline, Youtline>>

streamVars == <<catalogVars, streamPc, outOfRange, warnings, call, xc, yc, Q,
                stream_rate>>

vars == <<flowVars, streamVars>>

(***************************************************************************)
(* The mesh: every cell has one boundary face; the owner of a cell and the *)
(* boundary id of its face are fixed by the cell's number.                 *)
(***************************************************************************)
is_locally_owned(c, p) == (c % NProcs) = p

boundary_id(c) == 3 + (c % 3)

\* The cells in ascending order (the order of the active cell iterator).
ActiveCells == [c \in 1 .. NCells |-> c]

(***************************************************************************)
(* Entries of the operation logs of system_rhs and system_matrix.          *)
(***************************************************************************)
AddOp(src, c, n) == [op |-> "add", src |-> src, cell |-> c, iter |-> n]

CompressOp(n) == [op |-> "compress", src |-> "none", cell |-> 0, iter |-> n]

(***************************************************************************)
(* GWFLOW::Simulate and GWFLOW::Simulate_refine: the statement that        *)
(* follows statement `at` in a call of kind k.                             *)
(***************************************************************************)
Simulate_next_InjectAfterAssemble(k, at) ==
    CASE at = "setup_system"      -> "assemble"
      [] at = "assemble"          -> "add_contributions"
      [] at = "add_contributions" -> "solve"
      [] at = "solve"             -> "output"
      [] at = "output"            -> IF k = "Simulate_refine" THEN "refine" ELSE "idle"
      [] at = "refine"            -> "write_ucd"
      [] at = "write_ucd"         -> "idle"

Simulate_next(k, at) ==
    CASE at = "setup_system"      -> "add_contributions"
      [] at = "add_contributions" -> "assemble"
      [] at = "assemble"          -> "solve"
      [] at = "solve"             -> "output"
      [] at = "output"            -> IF k = "Simulate_refine" THEN "refine" ELSE "idle"
      [] at = "refine"            -> "write_ucd"
      [] at = "write_ucd"         -> "idle"

InitFlow ==
    /\ dim \in {2, 3}
    /\ fe_degree \in 1 .. MaxDegree
    /\ quadrature = [p \in Procs |-> [face |-> 0, estimate |-> 0]]
    /\ top_boundary_ids \in (SUBSET BoundaryIds) \ {{}}
    /\ streamCell \in {0} \cup Cells
    /\ iter = 0
    /\ kind = "none"
    /\ pc = [p \in Procs |-> "idle"]
    /\ trace = [p \in Procs |-> <<>>]
    /\ meshGen = [p \in Procs |-> 0]
    /\ built = [p \in Procs |-> [dofs |-> -1, constraints |-> -1, matrix |-> -1,
                                 rhs |-> -1, solution |-> -1]]
    /\ system_rhs = [p \in Procs |-> <<>>]
    /\ system_matrix = [p \in Procs |-> <<>>]
    /\ locally_relevant_solution = [p \in Procs |-> [iter |-> 0, distributed |-> FALSE]]
    /\ solveOutcome = "pending"
    /\ pcout = [p \in Procs |-> {}]
    /\ files = {}

\* Streams::Streams(): N_seg = 0 and every list empty.
InitStreams ==
    /\ N_seg = 0
    /\ A = <<>> /\ B = <<>> /\ Q_rate = <<>> /\ length = <<>> /\ width = <<>>
    /\ stream_triangles = <<>> /\ stream_ids = <<>> /\ stream_tree = <<>>
    /\ river_outline = <<>>
    /\ Xmax = <<>> /\ Xmin = <<>> /\ Ymin = <<>> /\ Ymax = <<>>
    /\ Xoutline = <<>> /\ Youtline = <<>>
    /\ streamPc = "ready"
    /\ outOfRange = {}
    /\ warnings = 0
    /\ call = [op |-> "none", file |-> <<>>, xp |-> <<>>, yp |-> <<>>, failing |-> {},
               ids |-> <<>>, ret |-> FALSE]
    /\ xc = <<>> /\ yc = <<>> /\ Q = <<>>
    /\ stream_rate = <<0, 1>>

Init == InitFlow /\ InitStreams

\* The driver calls Simulate or Simulate_refine on every process (SPMD).
Call(k) ==
    /\ \A p \in Procs : pc[p] = "idle"
    /\ iter < MaxIter
    /\ iter' = iter + 1
    /\ kind' = k
    /\ pc' = [p \in Procs |-> "setup_system"]
    /\ trace' = [p \in Procs |-> <<>>]
    /\ solveOutcome' = "pending"
    /\ UNCHANGED streamVars
    /\ UNCHANGED <<dim, fe_degree, quadrature, top_boundary_ids, streamCell, meshGen, built, system_rhs,
                   system_matrix, locally_relevant_solution, pcout, files>>

\* Executing the statement at pc[p]: the phase is recorded and control moves on.
Advance(p, phase) ==
    /\ trace' = [trace EXCEPT ![p] = Append(@, phase)]
    /\ pc' = [pc EXCEPT ![p] = Simulate_next(kind, pc[p])]

(***************************************************************************)
(* GWFLOW::setup_system: distribute_dofs, the index sets, reinit of the    *)
(* solution and of system_rhs, the constraints, the sparsity pattern and   *)
(* reinit of system_matrix, all on the triangulation as it is now.         *)
(***************************************************************************)
Rebuilt_KeepsMatrix(old, g) ==
    [dofs |-> g, constraints |-> g, matrix |-> old.matrix, rhs |-> g, solution |-> g]

Rebuilt(old, g) ==
    [dofs |-> g, constraints |-> g, matrix |-> g, rhs |-> g, solution |-> g]

\* reinit as it would be if it kept the entries of the vector or matrix.
reinit_KeepsEntries(v) == v

\* system_rhs.reinit, system_matrix.reinit: a new object, every entry zero.
reinit(v) == <<>>

setup_system(p) ==
    /\ pc[p] = "setup_system"
    /\ built' = [built EXCEPT ![p] = Rebuilt(built[p], meshGen[p])]
    /\ locally_relevant_solution' =
           [locally_relevant_solution EXCEPT ![p] = [iter |-> 0, distributed |-> FALSE]]
    /\ system_rhs' = [system_rhs EXCEPT ![p] = reinit(@)]
    /\ system_matrix' = [system_matrix EXCEPT ![p] = reinit(@)]
    /\ Advance(p, "Setup")
    /\ UNCHANGED streamVars
    /\ UNCHANGED <<dim, fe_degree, quadrature, top_boundary_ids, streamCell, iter, kind, meshGen, solveOutcome,
                   pcout, files>>

(***************************************************************************)
(* The source injection of Simulate: wells.add_contributions(system_rhs,   *)
(* ...) is called; the call of streams.add_contributions is commented out. *)
(***************************************************************************)
SourceContributions(p) ==
    <<AddOp("well", 0, iter)>>

add_contributions(p) ==
    /\ pc[p] = "add_contributions"
    /\ system_rhs' = [system_rhs EXCEPT ![p] = @ \o SourceContributions(p)]
    /\ Advance(p, "SourceInjection")
    /\ UNCHANGED streamVars
    /\ UNCHANGED <<dim, fe_degree, quadrature, top_boundary_ids, streamCell, iter, kind, meshGen, built,
                   system_matrix, locally_relevant_solution, solveOutcome, pcout, files>>

(***************************************************************************)
(* GWFLOW::assemble.  Per locally owned cell the stiffness matrix is       *)
(* integrated; on a boundary face the recharge is integrated when the      *)
(* face's boundary id passes the test of lines 189-190.  Both objects are  *)
(* compressed at the end.                                                  *)
(***************************************************************************)
at_boundary(c) == (c % 4) # 0

integrates_recharge(c) ==
    /\ at_boundary(c)
    /\ \/ (boundary_id(c) = 5 /\ dim = 3)
       \/ (boundary_id(c) = 3 /\ dim = 2)

OwnedCells(p) == SelectSeq(ActiveCells, LAMBDA c : is_locally_owned(c, p))

RechargeCells(p) == SelectSeq(OwnedCells(p), integrates_recharge)

assemble_matrix(p) ==
    [k \in 1 .. Len(OwnedCells(p)) |-> AddOp("stiffness", OwnedCells(p)[k], iter)]
        \o <<CompressOp(iter)>>

assemble_rhs(p) ==
    [k \in 1 .. Len(RechargeCells(p)) |-> AddOp("recharge", RechargeCells(p)[k], iter)]
        \o <<CompressOp(iter)>>

\* Line 143: const QGauss<dim-1> face_quadrature_formula(2).
face_quadrature_formula == 2

assemble(p) ==
    /\ pc[p] = "assemble"
    /\ system_matrix' = [system_matrix EXCEPT ![p] = @ \o assemble_matrix(p)]
    /\ system_rhs' = [system_rhs EXCEPT ![p] = @ \o assemble_rhs(p)]
    /\ quadrature' = [quadrature EXCEPT ![p].face = face_quadrature_formula]
    /\ Advance(p, "Assemble")
    /\ UNCHANGED streamVars
    /\ UNCHANGED <<dim, fe_degree, top_boundary_ids, streamCell, iter, kind, meshGen, built,
                   locally_relevant_solution, solveOutcome, pcout, files>>

(***************************************************************************)
(* GWFLOW::solve.  SolverControl(n_dofs, 1e-8) bounds the CG iteration.    *)
(* deal.II's SolverCG::solve ends with an AssertThrow of                   *)
(* SolverControl::NoConvergence when the control reports a failure, and    *)
(* solve() has no handler: lines 239-243 are then not executed and the     *)
(* exception leaves Simulate.  The solve is collective: every process of   *)
(* a call sees the same outcome.                                           *)
(***************************************************************************)
SolveOutcomes ==
    IF solveOutcome = "pending" THEN {"success", "failure"} ELSE {solveOutcome}

solve(p) ==
    /\ pc[p] = "solve"
    /\ \E o \in SolveOutcomes :
          /\ solveOutcome' = o
          /\ trace' = [trace EXCEPT ![p] = Append(@, "Solve")]
          /\ \/ /\ o = "success"
                /\ pcout' = [pcout EXCEPT ![p] = IF p = 0 THEN @ \cup {iter} ELSE @]
                /\ locally_relevant_solution' =
                       [locally_relevant_solution EXCEPT
                            ![p] = [iter |-> iter, distributed |-> TRUE]]
                /\ pc' = [pc EXCEPT ![p] = Simulate_next(kind, pc[p])]
             \/ /\ o = "failure"
                /\ pc' = [pc EXCEPT ![p] = "aborted"]
                /\ UNCHANGED <<pcout, locally_relevant_solution>>
    /\ UNCHANGED streamVars
    /\ UNCHANGED <<dim, fe_degree, quadrature, top_boundary_ids, streamCell, iter, kind, meshGen, built,
                   system_rhs, system_matrix, files>>

(***************************************************************************)
(* GWFLOW::output: every process writes its .vtu shard; the process of     *)
(* rank 0 also writes the .pvtu and .visit records naming one shard per    *)
(* process.                                                                *)
(***************************************************************************)
ShardName(n, subdomain) == <<"vtu", n, subdomain>>

output_files(p) ==
    {[name |-> ShardName(iter, p), shards |-> {}]}
        \cup (IF p = 0
              THEN {[name |-> <<ext, iter, 0>>,
                     shards |-> {ShardName(iter, i) : i \in 0 .. (NProcs - 1)}]
                       : ext \in {"pvtu", "visit"}}
              ELSE {})

output(p) ==
    /\ pc[p] = "output"
    /\ files' = files \cup output_files(p)
    /\ Advance(p, "Output")
    /\ UNCHANGED streamVars
    /\ UNCHANGED <<dim, fe_degree, quadrature, top_boundary_ids, streamCell, iter, kind, meshGen, built,
                   system_rhs, system_matrix, locally_relevant_solution, solveOutcome,
                   pcout>>

(***************************************************************************)
(* GWFLOW::refine: KellyErrorEstimator::estimate on dof_handler and the    *)
(* solution, then the triangulation is coarsened and refined.              *)
(***************************************************************************)
\* Line 356: QGauss<dim-1>(fe.degree+2).
estimator_quadrature(degree) == degree + 2

refine(p) ==
    /\ pc[p] = "refine"
    /\ meshGen' = [meshGen EXCEPT ![p] = @ + 1]
    /\ quadrature' = [quadrature EXCEPT ![p].estimate = estimator_quadrature(fe_degree)]
    /\ Advance(p, "EstimateAndRefine")
    /\ UNCHANGED streamVars
    /\ UNCHANGED <<dim, fe_degree, top_boundary_ids, streamCell, iter, kind, built, system_rhs,
                   system_matrix, locally_relevant_solution, solveOutcome, pcout, files>>

\* Simulate_refine, lines 343-346: the refined triangulation is written out.
write_ucd(p) ==
    /\ pc[p] = "write_ucd"
    /\ files' = files \cup {[name |-> <<"test_tria", 0, p>>, shards |-> {}]}
    /\ pc' = [pc EXCEPT ![p] = Simulate_next(kind, pc[p])]
    /\ UNCHANGED streamVars
    /\ UNCHANGED <<dim, fe_degree, quadrature, top_boundary_ids, streamCell, iter, kind, trace, meshGen, built,
                   system_rhs, system_matrix, locally_relevant_solution, solveOutcome,
                   pcout>>

Next ==
    \/ \E k \in {"Simulate", "Simulate_refine"} : Call(k)
    \/ \E p \in Procs : setup_system(p)
    \/ \E p \in Procs : add_contributions(p)
    \/ \E p \in Procs : assemble(p)
    \/ \E p \in Procs : solve(p)
    \/ \E p \in Procs : output(p)
    \/ \E p \in Procs : refine(p)
    \/ \E p \in Procs : write_ucd(p)

Spec == Init /\ [][Next]_vars

(***************************************************************************)
(* Exact arithmetic for the doubles of streams.h: a number is a fraction   *)
(* <<n, d>> in lowest terms with d > 0.  The inputs of the model are       *)
(* chosen so that every square root taken is the root of a perfect square. *)
(***************************************************************************)
RECURSIVE Gcd(_, _)
Gcd(a, b) == IF b = 0 THEN a ELSE Gcd(b, a % b)

Abs(n) == IF n < 0 THEN -n ELSE n

Frac(n, d) ==
    LET g == Gcd(Abs(n), Abs(d))
        sg == IF d < 0 THEN -1 ELSE 1
    IN  <<(sg * n) \div g, (sg * d) \div g>>

R(n) == <<n, 1>>

RAdd(a, b) == Frac(a[1] * b[2] + b[1] * a[2], a[2] * b[2])

RSub(a, b) == Frac(a[1] * b[2] - b[1] * a[2], a[2] * b[2])

RMul(a, b) == Frac(a[1] * b[1], a[2] * b[2])

RDiv(a, b) == Frac(a[1] * b[2], a[2] * b[1])

RNeg(a) == <<-a[1], a[2]>>

RAbs(a) == <<Abs(a[1]), a[2]>>

RLt(a, b) == a[1] * b[2] < b[1] * a[2]

RLe(a, b) == a[1] * b[2] <= b[1] * a[2]

ISqrt(n) == CHOOSE k \in 0 .. n : k * k = n

RSqrt(a) == <<ISqrt(a[1]), ISqrt(a[2])>>

\* A point with whole-number coordinates, as the input file gives it.
Pt(x, y) == <<R(x), R(y)>>

\* Point<2>::distance
distance(a, b) ==
    RSqrt(RAdd(RMul(RSub(a[1], b[1]), RSub(a[1], b[1])),
               RMul(RSub(a[2], b[2]), RSub(a[2], b[2]))))

\* The threshold 0.1 of create_river_outline.
Eps == <<1, 10>>

(***************************************************************************)
(* line_line_intersection(b1, m1, b2, m2, x, y) of helper_functions.h:     *)
(* the point where y = m1 x + b1 meets y = m2 x + b2; false when the two   *)
(* lines are parallel.                                                     *)
(***************************************************************************)
line_line_intersection(b1, m1, b2, m2) ==
    IF m1 = m2
    THEN [ok |-> FALSE, x |-> R(0), y |-> R(0)]
    ELSE LET x == RDiv(RSub(b2, b1), RSub(m1, m2))
         IN  [ok |-> TRUE, x |-> x, y |-> RAdd(RMul(m1, x), b1)]

(***************************************************************************)
(* Streams::create_river_outline: the outline of the segment A-B buffered  *)
(* by width, as the lists xx and yy, and whether the warning was written.  *)
(***************************************************************************)
outline_vertical(a, b, w) ==
    [xx |-> <<RSub(a[1], w), RAdd(a[1], w), RSub(b[1], w), RAdd(b[1], w)>>,
     yy |-> <<a[2], a[2], b[2], b[2]>>,
     warned |-> FALSE]

outline_horizontal(a, b, w) ==
    [xx |-> <<a[1], a[1], b[1], b[1]>>,
     yy |-> <<RSub(a[2], w), RAdd(a[2], w), RSub(b[2], w), RAdd(b[2], w)>>,
     warned |-> FALSE]

outline_sloped(a, b, w) ==
    LET m   == RDiv(RSub(b[2], a[2]), RSub(b[1], a[1]))
        b0  == RSub(a[2], RMul(m, a[1]))
        s   == RSqrt(RAdd(RMul(m, m), R(1)))
        b1  == RSub(b0, RMul(w, s))
        b2  == RAdd(RMul(w, s), b0)
        m_p == RNeg(RDiv(R(1), m))
        b_a == RSub(a[2], RMul(m_p, a[1]))
        b_b == RSub(b[2], RMul(m_p, b[1]))
        hits == << line_line_intersection(b_a, m_p, b1, m),
                   line_line_intersection(b_a, m_p, b2, m),
                   line_line_intersection(b_b, m_p, b2, m),
                   line_line_intersection(b_b, m_p, b1, m) >>
        found == SelectSeq(hits, LAMBDA h : h.ok)
    IN  [xx |-> [k \in 1 .. Len(found) |-> found[k].x],
         yy |-> [k \in 1 .. Len(found) |-> found[k].y],
         warned |-> FALSE]

create_river_outline(a, b, w) ==
    IF RLt(RAbs(RSub(a[1], b[1])), Eps) /\ RLt(RAbs(RSub(a[2], b[2])), Eps)
    THEN [xx |-> <<>>, yy |-> <<>>, warned |-> TRUE]
    ELSE IF RLt(RAbs(RSub(a[1], b[1])), Eps)
    THEN outline_vertical(a, b, w)
    ELSE IF RLt(RAbs(RSub(a[2], b[2])), Eps)
    THEN outline_horizontal(a, b, w)
    ELSE outline_sloped(a, b, w)

(***************************************************************************)
(* A value read from outside a vector's elements, or never assigned: the   *)
(* build decides what it is.  It is kept apart from every number.          *)
(***************************************************************************)
Indeterminate == <<0, 0>>

IndeterminatePoint == <<Indeterminate, Indeterminate>>

\* xx[j], yy[j] as a point (j counted from 1); outside the lists the read is
\* out of range.
OutlineVertex(xx, yy, j) ==
    IF j <= Len(xx) THEN <<xx[j], yy[j]>> ELSE IndeterminatePoint

OutlinePoints(xx, yy) == [j \in 1 .. Len(xx) |-> <<xx[j], yy[j]>>]

(***************************************************************************)
(* polyXpoly(xp, yp, X, Y, xc, yc) of the geometry helpers: the area of    *)
(* the intersection of the cell footprint with the segment's outline, and  *)
(* the centroid of that intersection.  Both polygons are convex; they are  *)
(* clipped edge by edge.                                                   *)
(***************************************************************************)
Cross(o, a, b) ==
    RSub(RMul(RSub(a[1], o[1]), RSub(b[2], o[2])),
         RMul(RSub(a[2], o[2]), RSub(b[1], o[1])))

NextIdx(poly, k) == IF k = Len(poly) THEN 1 ELSE k + 1

PrevIdx(poly, k) == IF k = 1 THEN Len(poly) ELSE k - 1

\* Strictly convex and counter-clockwise.
IsCcwConvex(poly) ==
    /\ Len(poly) >= 3
    /\ \A k \in 1 .. Len(poly) :
           RLt(R(0), Cross(poly[k], poly[NextIdx(poly, k)],
                           poly[NextIdx(poly, NextIdx(poly, k))]))

Reverse(poly) == [k \in 1 .. Len(poly) |-> poly[Len(poly) + 1 - k]]

\* The vertices of a quadrilateral or triangle as a counter-clockwise ring,
\* whether they were listed around the ring or row by row; <<>> when they
\* bound no area.
Ring(pts) ==
    LET orders == IF Len(pts) = 4
                  THEN << pts,
                          <<pts[1], pts[2], pts[4], pts[3]>>,
                          <<pts[1], pts[3], pts[2], pts[4]>> >>
                  ELSE <<pts>>
        both == orders \o [k \in 1 .. Len(orders) |-> Reverse(orders[k])]
        good == SelectSeq(both, IsCcwConvex)
    IN  IF Len(good) = 0 THEN <<>> ELSE good[1]

SegmentCut(a, b, s, e) ==
    LET cs == Cross(a, b, s)
        ce == Cross(a, b, e)
        t  == RDiv(cs, RSub(cs, ce))
    IN  <<RAdd(s[1], RMul(t, RSub(e[1], s[1]))), RAdd(s[2], RMul(t, RSub(e[2], s[2])))>>

RECURSIVE ClipFrom(_, _, _, _)
ClipFrom(poly, a, b, k) ==
    IF k > Len(poly)
    THEN <<>>
    ELSE LET s == poly[PrevIdx(poly, k)]
             e == poly[k]
             sIn == RLe(R(0), Cross(a, b, s))
             eIn == RLe(R(0), Cross(a, b, e))
             here == IF eIn
                     THEN IF sIn THEN <<e>> ELSE <<SegmentCut(a, b, s, e), e>>
                     ELSE IF sIn THEN <<SegmentCut(a, b, s, e)>> ELSE <<>>
         IN  here \o ClipFrom(poly, a, b, k + 1)

RECURSIVE ClipBy(_, _, _)
ClipBy(poly, clip, k) ==
    IF k > Len(clip)
    THEN poly
    ELSE ClipBy(ClipFrom(poly, clip[k], clip[NextIdx(clip, k)], 1), clip, k + 1)

RECURSIVE RSum(_, _)
RSum(f, k) == IF k = 0 THEN R(0) ELSE RAdd(f[k], RSum(f, k - 1))

Shoelace(poly, k) ==
    RSub(RMul(poly[k][1], poly[NextIdx(poly, k)][2]),
         RMul(poly[NextIdx(poly, k)][1], poly[k][2]))

PolygonArea(poly) ==
    IF Len(poly) < 3
    THEN R(0)
    ELSE RDiv(RSum([k \in 1 .. Len(poly) |-> Shoelace(poly, k)], Len(poly)), R(2))

PolygonCentroid(poly) ==
    LET a6 == RMul(R(6), PolygonArea(poly))
        cx == RSum([k \in 1 .. Len(poly) |->
                       RMul(RAdd(poly[k][1], poly[NextIdx(poly, k)][1]), Shoelace(poly, k))],
                   Len(poly))
        cy == RSum([k \in 1 .. Len(poly) |->
                       RMul(RAdd(poly[k][2], poly[NextIdx(poly, k)][2]), Shoelace(poly, k))],
                   Len(poly))
    IN  <<RDiv(cx, a6), RDiv(cy, a6)>>

\* An empty intersection has area zero and leaves xc, yc unassigned.
polyXpoly(xp, yp, X, Y) ==
    LET cell    == Ring(OutlinePoints(xp, yp))
        outline == Ring(OutlinePoints(X, Y))
        common  == IF Len(cell) = 0 \/ Len(outline) = 0
                   THEN <<>>
                   ELSE ClipBy(outline, cell, 1)
        area    == PolygonArea(common)
    IN  IF area = R(0)
        THEN [area |-> R(0), xc |-> Indeterminate, yc |-> Indeterminate]
        ELSE [area |-> area, xc |-> PolygonCentroid(common)[1],
              yc |-> PolygonCentroid(common)[2]]

(***************************************************************************)
(* The stream input files of the model: up to MaxSeg records, each one of  *)
(* a vertical, a horizontal, a sloped and a near-zero-length segment.      *)
(***************************************************************************)
StreamRecords ==
    { [A |-> <<0, 0>>, B |-> <<0, 4>>, q |-> 2, w |-> 1],
      [A |-> <<0, 0>>, B |-> <<4, 0>>, q |-> 3, w |-> 1],
      [A |-> <<0, 0>>, B |-> <<3, 4>>, q |-> 5, w |-> 1],
      [A |-> <<2, 2>>, B |-> <<2, 2>>, q |-> 7, w |-> 1] }

StreamFiles == UNION { [1 .. n -> StreamRecords] : n \in 0 .. MaxSeg }

\* The catalog: the data members that read_streams fills.
Catalog ==
    [N_seg |-> N_seg, A |-> A, B |-> B, Q_rate |-> Q_rate, length |-> length,
     width |-> width, stream_triangles |-> stream_triangles, stream_ids |-> stream_ids,
     stream_tree |-> stream_tree, river_outline |-> river_outline,
     Xmax |-> Xmax, Xmin |-> Xmin, Ymin |-> Ymin, Ymax |-> Ymax,
     Xoutline |-> Xoutline, Youtline |-> Youtline]

SetCatalog(c) ==
    /\ N_seg' = c.N_seg /\ A' = c.A /\ B' = c.B /\ Q_rate' = c.Q_rate
    /\ length' = c.length /\ width' = c.width
    /\ stream_triangles' = c.stream_triangles /\ stream_ids' = c.stream_ids
    /\ stream_tree' = c.stream_tree /\ river_outline' = c.river_outline
    /\ Xmax' = c.Xmax /\ Xmin' = c.Xmin /\ Ymin' = c.Ymin /\ Ymax' = c.Ymax
    /\ Xoutline' = c.Xoutline /\ Youtline' = c.Youtline

\* The one element of a singleton set: the value of an expression, worked out once.
Only(S) == CHOOSE x \in S : TRUE

\* std::vector::resize(n): the first n elements kept, new ones value-initialised.
Resize(v, n, d) == [k \in 1 .. n |-> IF k <= Len(v) THEN v[k] ELSE d]

\* The initial value of the bounding box search, lines 238-239.
BoxSentinel == 100000000

\* Lines 238-249: the bounding box of the outline xx, yy.
RECURSIVE BoxFrom(_, _, _, _)
BoxFrom(xx, yy, j, box) ==
    IF j > Len(xx)
    THEN box
    ELSE BoxFrom(xx, yy, j + 1,
                 [Xmax |-> IF RLt(box.Xmax, xx[j]) THEN xx[j] ELSE box.Xmax,
                  Xmin |-> IF RLt(xx[j], box.Xmin) THEN xx[j] ELSE box.Xmin,
                  Ymax |-> IF RLt(box.Ymax, yy[j]) THEN yy[j] ELSE box.Ymax,
                  Ymin |-> IF RLt(yy[j], box.Ymin) THEN yy[j] ELSE box.Ymin])

BoundingBox(xx, yy) ==
    BoxFrom(xx, yy, 1, [Xmin |-> R(BoxSentinel), Xmax |-> R(-BoxSentinel),
                        Ymin |-> R(BoxSentinel), Ymax |-> R(-BoxSentinel)])

RecordOutline(r) == create_river_outline(Pt(r.A[1], r.A[2]), Pt(r.B[1], r.B[2]), R(r.w))

\* Lines 222-249 for record i: the segment, its outline and its bounding box.
read_record(c, r, i) ==
    Only({ [c EXCEPT !.A[i] = Pt(r.A[1], r.A[2]),
                     !.B[i] = Pt(r.B[1], r.B[2]),
                     !.Q_rate[i] = R(r.q),
                     !.length[i] = distance(Pt(r.A[1], r.A[2]), Pt(r.B[1], r.B[2])),
                     !.width[i] = R(r.w),
                     !.Xoutline[i] = o.xx,
                     !.Youtline[i] = o.yy,
                     !.Xmin[i] = box.Xmin, !.Xmax[i] = box.Xmax,
                     !.Ymin[i] = box.Ymin, !.Ymax[i] = box.Ymax]
             : <<o, box>> \in { <<q, BoundingBox(q.xx, q.yy)>> : q \in {RecordOutline(r)} } })

\* Lines 251-260 for record i: two triangles of the outline, tagged with i.
\* xx[0..3] and yy[0..3] are read whatever the size of the outline.
push_triangles(c, i) ==
    Only({ [cc EXCEPT !.stream_triangles =
                          @ \o << <<OutlineVertex(cc.Xoutline[i], cc.Youtline[i], 1),
                                    OutlineVertex(cc.Xoutline[i], cc.Youtline[i], 2),
                                    OutlineVertex(cc.Xoutline[i], cc.Youtline[i], 3)>>,
                                  <<OutlineVertex(cc.Xoutline[i], cc.Youtline[i], 2),
                                    OutlineVertex(cc.Xoutline[i], cc.Youtline[i], 4),
                                    OutlineVertex(cc.Xoutline[i], cc.Youtline[i], 3)>> >>,
                      !.stream_ids = @ \o <<i, i>>] : cc \in {c} })

\* The loop of lines 221-261 from record i on; at record crashAt the first
\* out-of-range read faults.
RECURSIVE read_records(_, _, _, _)
read_records(c, f, i, crashAt) ==
    IF i > Len(f)
    THEN c
    ELSE IF i = crashAt
    THEN read_record(c, f[i], i)
    ELSE read_records(push_triangles(read_record(c, f[i], i), i), f, i + 1, crashAt)

\* Lines 203-218: N_seg is read and every per-segment list is resized.
resize_lists(c, n) ==
    [c EXCEPT !.N_seg = n,
              !.A = Resize(@, n, Pt(0, 0)), !.B = Resize(@, n, Pt(0, 0)),
              !.length = Resize(@, n, R(0)), !.Q_rate = Resize(@, n, R(0)),
              !.width = Resize(@, n, R(0)),
              !.Xoutline = Resize(@, n, <<>>), !.Youtline = Resize(@, n, <<>>),
              !.Xmin = Resize(@, n, R(0)), !.Xmax = Resize(@, n, R(0)),
              !.Ymin = Resize(@, n, R(0)), !.Ymax = Resize(@, n, R(0))]

\* Line 263: the whole triangle list is inserted into the tree.
insert_triangles(c) ==
    Only({ [cc EXCEPT !.stream_tree = @ \o [k \in 1 .. Len(cc.stream_triangles) |-> k]]
             : cc \in {c} })

\* Lines 197-200 as they would be if the lists were emptied before the return.
read_streams_not_good_Clears(c) == resize_lists(c, 0)

\* Lines 197-200: the file does not open.
read_streams_not_good(c) == c

\* Lines 201-265: the file opens and holds the records f.
read_streams_good(c, f, crashAt) ==
    IF crashAt = 0
    THEN insert_triangles(read_records(resize_lists(c, Len(f)), f, 1, 0))
    ELSE read_records(resize_lists(c, Len(f)), f, 1, crashAt)

\* The reads of xx[j], yy[j] of lines 251-259 that are out of range in file f.
FileOutOfRange(f) ==
    { <<i, j>> \in (1 .. Len(f)) \X (1 .. 4) : j > Len(RecordOutline(f[i]).xx) }

FileWarnings(f, upto) ==
    Cardinality({ i \in 1 .. upto : RecordOutline(f[i]).warned })

NoCall == [op |-> "none", file |-> <<>>, xp |-> <<>>, yp |-> <<>>, failing |-> {},
           ids |-> <<>>, ret |-> FALSE]

(***************************************************************************)
(* Streams::read_streams(namefile).  good: the file opens; f: its records. *)
(* An out-of-range read either faults or yields an indeterminate value.    *)
(***************************************************************************)
read_streams(good, f) ==
    /\ streamPc = "ready"
    /\ \/ /\ ~good
          /\ f = <<>>
          /\ SetCatalog(read_streams_not_good(Catalog))
          /\ call' = [NoCall EXCEPT !.op = "read_streams", !.ret = FALSE]
          /\ UNCHANGED <<streamPc, outOfRange, warnings>>
       \/ /\ good
          /\ Len(stream_triangles) + 2 * Len(f) <= MaxTriangles
          /\ Len(stream_tree) + Len(stream_triangles) + 2 * Len(f) <= MaxTree
          /\ \E crashAt \in {0} \cup { e[1] : e \in FileOutOfRange(f) } :
                /\ \E c \in {read_streams_good(Catalog, f, crashAt)} : SetCatalog(c)
                /\ streamPc' = IF crashAt = 0 THEN "ready" ELSE "crashed"
                /\ outOfRange' = outOfRange \cup
                       { <<"outline", e[1], e[2]>> :
                           e \in { d \in FileOutOfRange(f) :
                                     crashAt = 0 \/ d[1] < crashAt
                                       \/ (d[1] = crashAt /\ d[2] = 1) } }
                /\ warnings' = warnings +
                       FileWarnings(f, IF crashAt = 0 THEN Len(f) ELSE crashAt)
                /\ call' = [NoCall EXCEPT !.op = "read_streams", !.file = f,
                                          !.ret = (crashAt = 0)]
    /\ UNCHANGED <<xc, yc, Q, stream_rate>>
    /\ UNCHANGED flowVars

(***************************************************************************)
(* find_intersection_in_AABB_TREE(stream_tree, stream_triangles, xp, yp,   *)
(* ids) of the geometry helpers: the positions in stream_triangles of the  *)
(* tree's primitives whose bounding box meets the bounding box of the      *)
(* footprint, and whether there is any.  A triangle with indeterminate     *)
(* corners meets the footprint when its segment is in hitIds.              *)
(***************************************************************************)
RMin(a, b) == IF RLt(b, a) THEN b ELSE a

RMax(a, b) == IF RLt(a, b) THEN b ELSE a

PointsBox(pts) ==
    BoxFrom([k \in 1 .. Len(pts) |-> pts[k][1]], [k \in 1 .. Len(pts) |-> pts[k][2]], 2,
            [Xmin |-> pts[1][1], Xmax |-> pts[1][1], Ymin |-> pts[1][2], Ymax |-> pts[1][2]])

BoxesMeet(a, b) ==
    /\ RLe(a.Xmin, b.Xmax) /\ RLe(b.Xmin, a.Xmax)
    /\ RLe(a.Ymin, b.Ymax) /\ RLe(b.Ymin, a.Ymax)

IsIndeterminate(t) == \E v \in 1 .. 3 : t[v] = IndeterminatePoint

find_intersection_in_AABB_TREE(tree, triangles, ids, xp, yp, hitIds) ==
    LET cellBox == PointsBox(OutlinePoints(xp, yp))
        hit(k)  == IF IsIndeterminate(triangles[k])
                   THEN ids[k] \in hitIds
                   ELSE BoxesMeet(PointsBox(triangles[k]), cellBox)
        found   == SelectSeq(tree, hit)
    IN  [tf |-> Len(found) > 0, ids |-> found]

\* The keys of std::map<int,int> unique_ids in ascending order.
RECURSIVE SortedSeq(_)
SortedSeq(S) ==
    IF S = {}
    THEN <<>>
    ELSE LET m == CHOOSE x \in S : \A y \in S : x <= y
         IN  <<m>> \o SortedSeq(S \ {m})

unique_ids(found) == SortedSeq({ stream_ids[found[k]] : k \in 1 .. Len(found) })

\* Lines 372-375 for segment id: what is pushed onto xc, yc and Q.  Xoutline[id]
\* read past the end of the list is indeterminate.
candidate_entry(c, xp, yp, id) ==
    IF id > Len(c.Xoutline)
    THEN [xc |-> Indeterminate, yc |-> Indeterminate, Q |-> Indeterminate]
    ELSE LET r == polyXpoly(xp, yp, c.Xoutline[id], c.Youtline[id])
         IN  [xc |-> r.xc, yc |-> r.yc, Q |-> RMul(r.area, c.Q_rate[id])]

\* The loop of lines 369-379 from the k-th unique id on: polyXpoly throws for
\* the segments in failing, the handler inside the loop writes a message, and
\* the loop goes on.
RECURSIVE recharge_from_CatchOutside(_, _, _, _, _, _)
recharge_from_CatchOutside(c, xp, yp, ids, failing, k) ==
    IF k > Len(ids) \/ ids[k] \in failing
    THEN <<>>
    ELSE <<candidate_entry(c, xp, yp, ids[k])>>
             \o recharge_from_CatchOutside(c, xp, yp, ids, failing, k + 1)

RECURSIVE recharge_from(_, _, _, _, _, _)
recharge_from(c, xp, yp, ids, failing, k) ==
    IF k > Len(ids)
    THEN <<>>
    ELSE (IF ids[k] \in failing THEN <<>> ELSE <<candidate_entry(c, xp, yp, ids[k])>>)
             \o recharge_from(c, xp, yp, ids, failing, k + 1)

\* The ids before the first one whose outline is read out of range.
RECURSIVE BeforeStale(_, _)
BeforeStale(ids, n) ==
    IF Len(ids) = 0 \/ ids[1] > n THEN <<>> ELSE <<ids[1]>> \o BeforeStale(Tail(ids), n)

\* The cell footprints of the model: xp, yp of the top face of a cell.
Rect(x0, x1, y0, y1) ==
    [xp |-> <<R(x0), R(x1), R(x1), R(x0)>>, yp |-> <<R(y0), R(y0), R(y1), R(y1)>>]

Footprints ==
    { Rect(0, 1, 0, 1), Rect(0, 1, 1, 2), Rect(1, 2, 0, 1), Rect(3, 4, 1, 2),
      Rect(20, 21, 20, 21) }

IndeterminateIds ==
    { stream_ids[k] : k \in { j \in 1 .. Len(stream_triangles) :
                                IsIndeterminate(stream_triangles[j]) } }

(***************************************************************************)
(* Streams::get_stream_recharge(xc, yc, Q, xp, yp).  failing: the segments *)
(* for which polyXpoly throws.  fault: an out-of-range read of Xoutline    *)
(* stops the program.                                                      *)
(***************************************************************************)
recharge_call(fp, found, unique, failing, fault) ==
    LET stale  == { k \in 1 .. Len(unique) : unique[k] > Len(Xoutline) }
        done   == IF fault THEN BeforeStale(unique, Len(Xoutline)) ELSE unique
        pushed == recharge_from(Catalog, fp.xp, fp.yp, done, failing, 1)
    IN  /\ fault => stale # {}
        /\ \E out \in {pushed} :
              /\ xc' = [k \in 1 .. Len(out) |-> out[k].xc]
              /\ yc' = [k \in 1 .. Len(out) |-> out[k].yc]
              /\ Q' = [k \in 1 .. Len(out) |-> out[k].Q]
        /\ streamPc' = IF fault THEN "crashed" ELSE "ready"
        /\ outOfRange' = outOfRange \cup
               { <<"Xoutline", unique[k], 0>> :
                   k \in { j \in stale : ~fault \/ \A i \in stale : j <= i } }
        /\ call' = [op |-> "get_stream_recharge", file |-> <<>>,
                    xp |-> fp.xp, yp |-> fp.yp, failing |-> failing,
                    ids |-> found.ids, ret |-> found.tf]

get_stream_recharge(fp) ==
    /\ streamPc = "ready"
    /\ \E hitIds \in SUBSET IndeterminateIds :
          \E found \in { find_intersection_in_AABB_TREE(stream_tree, stream_triangles,
                                                        stream_ids, fp.xp, fp.yp, hitIds) } :
             \E unique \in { IF found.tf THEN unique_ids(found.ids) ELSE <<>> } :
                \E failing \in SUBSET { unique[k] : k \in 1 .. Len(unique) } :
                   \E fault \in BOOLEAN :
                      recharge_call(fp, found, unique, failing, fault)
    /\ UNCHANGED <<catalogVars, warnings, stream_rate>>
    /\ UNCHANGED flowVars

(***************************************************************************)
(* Streams::get_stream_rate(p): the rate of the first segment, in load      *)
(* order, whose bounding box holds p and whose quadrilateral, set up from   *)
(* river_outline[i_seg], holds p.  river_outline[i_seg] read past the end   *)
(* of the list either faults (at segment faultAt) or gives an indeterminate *)
(* quadrilateral, which holds p for the segments in inside.                 *)
(***************************************************************************)
in_box(c, i, p) ==
    /\ RLe(c.Xmin[i], p[1]) /\ RLe(p[1], c.Xmax[i])
    /\ RLe(c.Ymin[i], p[2]) /\ RLe(p[2], c.Ymax[i])

\* cell2D->point_inside(p) for the cell whose vertices are those of outline.
point_inside(outline, p) ==
    LET quad == Ring(outline)
    IN  /\ Len(quad) > 0
        /\ \A k \in 1 .. Len(quad) :
               RLe(R(0), Cross(quad[k], quad[NextIdx(quad, k)], p))

RECURSIVE rate_from(_, _, _, _, _)
rate_from(c, p, i, inside, faultAt) ==
    IF i > c.N_seg
    THEN [rate |-> R(0), reads |-> {}, crashed |-> FALSE]
    ELSE IF ~in_box(c, i, p)
    THEN rate_from(c, p, i + 1, inside, faultAt)
    ELSE IF i <= Len(c.river_outline)
    THEN IF point_inside(c.river_outline[i], p)
         THEN [rate |-> c.Q_rate[i], reads |-> {}, crashed |-> FALSE]
         ELSE rate_from(c, p, i + 1, inside, faultAt)
    ELSE IF i = faultAt
    THEN [rate |-> R(0), reads |-> {i}, crashed |-> TRUE]
    ELSE IF i \in inside
    THEN [rate |-> c.Q_rate[i], reads |-> {i}, crashed |-> FALSE]
    ELSE Only({ [rest EXCEPT !.reads = @ \cup {i}]
                  : rest \in {rate_from(c, p, i + 1, inside, faultAt)} })

\* The query points of the model.
QueryPoints == { Pt(0, 1), Pt(1, 0), Pt(2, 2), Pt(20, 20) }

get_stream_rate(p) ==
    /\ streamPc = "ready"
    /\ \E unset \in { { i \in 1 .. N_seg : in_box(Catalog, i, p)
                                           /\ i > Len(river_outline) } } :
          \E inside \in SUBSET unset :
             \E faultAt \in {0} \cup unset :
                \E r \in { rate_from(Catalog, p, 1, inside, faultAt) } :
                   /\ stream_rate' = r.rate
                   /\ streamPc' = IF r.crashed THEN "crashed" ELSE "ready"
                   /\ outOfRange' = outOfRange \cup
                          { <<"river_outline", i, 0>> : i \in r.reads }
                   /\ call' = [NoCall EXCEPT !.op = "get_stream_rate",
                                             !.xp = <<p[1]>>, !.yp = <<p[2]>>,
                                             !.ret = ~r.crashed]
    /\ UNCHANGED <<catalogVars, warnings, xc, yc, Q>>
    /\ UNCHANGED flowVars

NextStreams ==
    \/ \E good \in BOOLEAN, f \in StreamFiles : read_streams(good, f)
    \/ \E fp \in Footprints : get_stream_recharge(fp)

\* The streams are used on their own here: one GWFLOW construction suffices.
InitStreamsOnly ==
    /\ InitStreams
    /\ InitFlow
    /\ dim = 3
    /\ fe_degree = 1
    /\ top_boundary_ids = {5}
    /\ streamCell = 0

SpecStreams == InitStreamsOnly /\ [][NextStreams]_vars

\* The catalog with the point queries alone.
NextRate ==
    \/ \E good \in BOOLEAN, f \in StreamFiles : read_streams(good, f)
    \/ \E p \in QueryPoints : get_stream_rate(p)

SpecRate == InitStreamsOnly /\ [][NextRate]_vars

\* Stream files whose records may lie further than 100000000 from the origin.
FarRecords ==
    StreamRecords \cup
    { [A |-> <<200000000, 0>>, B |-> <<200000000, 4>>, q |-> 2, w |-> 1],
      [A |-> <<0, -200000000>>, B |-> <<4, -200000000>>, q |-> 3, w |-> 1] }

FarFiles == UNION { [1 .. n -> FarRecords] : n \in 0 .. MaxSeg }

NextFar == \E good \in BOOLEAN, f \in FarFiles : read_streams(good, f)

SpecFar == InitStreamsOnly /\ [][NextFar]_vars

(***************************************************************************)
(* Properties of the GWFLOW driver.                                        *)
(***************************************************************************)
Phases(k) ==
    IF k = "Simulate_refine"
    THEN <<"Setup", "SourceInjection", "Assemble", "Solve", "Output", "EstimateAndRefine">>
    ELSE <<"Setup", "SourceInjection", "Assemble", "Solve", "Output">>

IsPrefix(s, t) == Len(s) <= Len(t) /\ s = SubSeq(t, 1, Len(s))

\* The call of process p is over: it returned, or an exception left it.
CallOver(p) == iter > 0 /\ pc[p] \in {"idle", "aborted"}

\* The objects a statement reads or writes in place.
Uses(at) ==
    CASE at = "add_contributions" -> {"dofs", "constraints", "rhs"}
      [] at = "assemble"          -> {"dofs", "constraints", "matrix", "rhs"}
      [] at = "solve"             -> {"dofs", "constraints", "matrix", "rhs", "solution"}
      [] at = "output"            -> {"dofs", "solution"}
      [] at = "refine"            -> {"dofs", "solution"}
      [] OTHER                    -> {}

IsAdd(e) == e.op = "add"

IsCompress(e) == e.op = "compress"

\* C1: in every call each process runs Setup, SourceInjection, Assemble, Solve,
\* Output exactly once and in that order, and in Simulate_refine
\* EstimateAndRefine once after Output: at no time has a process run anything
\* but a prefix of that sequence, and when its call is over it has run all of it.
C1_PhasesOnceInOrder ==
    \A p \in Procs :
        /\ IsPrefix(trace[p], Phases(kind))
        /\ CallOver(p) => trace[p] = Phases(kind)

C3_NoStaleState ==
    \A p \in Procs :
        \A o \in Uses(pc[p]) : built[p][o] = meshGen[p]

C3_Witness ==
    \E p \in Procs : meshGen[p] > 0 /\ pc[p] = "assemble"

\* C4: the right-hand side that is solved holds the contribution of a loaded
\* stream that crosses the top-boundary face of a locally owned cell.
C4_StreamContributionSolved ==
    \A p \in Procs :
        ( /\ pc[p] = "solve"
          /\ streamCell # 0
          /\ is_locally_owned(streamCell, p)
          /\ at_boundary(streamCell)
          /\ boundary_id(streamCell) \in top_boundary_ids )
        => \E i \in 1 .. Len(system_rhs[p]) :
               system_rhs[p][i] = AddOp("stream", streamCell, iter)

\* C5: when the solver does not converge the failure is not fatal: the process
\* that ran Solve has not left Simulate by an exception, the solution of this
\* iteration is distributed and published, and rank 0 has reported the count.
C5_NonConvergenceNotFatal ==
    \A p \in Procs :
        (solveOutcome = "failure" /\ Len(trace[p]) >= 4)
        => /\ pc[p] # "aborted"
           /\ locally_relevant_solution[p] = [iter |-> iter, distributed |-> TRUE]
           /\ p = 0 => iter \in pcout[p]

\* C6: after Assemble, the boundary faces of owned cells on which recharge was
\* integrated are exactly those whose boundary id is in top_boundary_ids.
C6_RechargeOnTopBoundaryIds ==
    \A p \in Procs :
        Len(trace[p]) >= 3
        => { c \in Cells : \E i \in 1 .. Len(system_rhs[p]) :
                               system_rhs[p][i] = AddOp("recharge", c, iter) }
           = { c \in Cells : /\ is_locally_owned(c, p)
                             /\ at_boundary(c)
                             /\ boundary_id(c) \in top_boundary_ids }

(***************************************************************************)
(* Properties of the stream catalog.                                       *)
(***************************************************************************)
\* C7: when the stream file cannot be opened, read_streams returns false and
\* N_seg, every per-segment list, the triangle list, the id list and the tree
\* are exactly as they were before the call.
C7_FailedOpenLeavesCatalog ==
    [][read_streams(FALSE, <<>>) => (call'.ret = FALSE /\ UNCHANGED catalogVars)]_vars

\* A file failed to open after a catalog had been loaded, and the catalog is there.
C7_Witness ==
    /\ call.op = "read_streams"
    /\ call.file = <<>>
    /\ ~call.ret
    /\ streamPc = "ready"
    /\ N_seg > 0
    /\ Len(stream_tree) > 0

\* C8: for a stream record whose outline has fewer than 4 vertices read_streams
\* gives a warning and goes on, and no read of xx[j] or yy[j] is at an index
\* the outline does not have.
C8_ShortOutlineReadInBounds ==
    /\ \A e \in outOfRange : e[1] # "outline"
    /\ ( /\ call.op = "read_streams"
         /\ \E i \in 1 .. Len(call.file) : Len(RecordOutline(call.file[i]).xx) < 4 )
       => (warnings > 0 /\ streamPc = "ready")

\* C9: when polyXpoly throws for some candidate segments of a cell, the call
\* returns, those candidates add nothing to xc, yc and Q, and the lists are what
\* the loop gives for the other candidates alone; the call stops only on an
\* out-of-range read of Xoutline, never on a failing intersection.
C9_FailingCandidateSkipped ==
    call.op = "get_stream_recharge" =>
        /\ streamPc = "ready" =>
               LET others == SelectSeq(unique_ids(call.ids),
                                       LAMBDA id : id \notin call.failing)
                   alone  == recharge_from(Catalog, call.xp, call.yp, others, {}, 1)
               IN  /\ xc = [k \in 1 .. Len(alone) |-> alone[k].xc]
                   /\ yc = [k \in 1 .. Len(alone) |-> alone[k].yc]
                   /\ Q = [k \in 1 .. Len(alone) |-> alone[k].Q]
        /\ streamPc = "crashed" => \E e \in outOfRange : e[1] = "Xoutline"

\* One candidate of the cell failed and another one gave its contribution.
C9_Witness ==
    /\ call.op = "get_stream_recharge"
    /\ streamPc = "ready"
    /\ call.failing # {}
    /\ Len(Q) > 0
    /\ \E k \in 1 .. Len(Q) : RLt(R(0), Q[k])

\* C10: get_stream_recharge gives one entry for each distinct candidate segment
\* id whose outline has a non-empty intersection with the footprint, and none
\* for a candidate segment whose intersection is empty.  Stated for the calls in
\* which no intersection throws and every outline read so far was in range.
C10_OneEntryPerIntersectingSegment ==
    ( /\ call.op = "get_stream_recharge"
      /\ streamPc = "ready"
      /\ call.failing = {}
      /\ outOfRange = {} )
    => LET cut(id)  == polyXpoly(call.xp, call.yp, Xoutline[id], Youtline[id])
           meeting  == SelectSeq(unique_ids(call.ids), LAMBDA id : cut(id).area # R(0))
       IN  /\ Len(Q) = Len(meeting)
           /\ \A k \in 1 .. Len(meeting) :
                  /\ xc[k] = cut(meeting[k]).xc
                  /\ yc[k] = cut(meeting[k]).yc
                  /\ Q[k] = RMul(cut(meeting[k]).area, Q_rate[meeting[k]])

\* C11: get_stream_recharge returns true exactly when the footprint has an
\* intersection with a stream: when xc, yc and Q are not empty and the outline
\* of some segment overlaps the footprint in a positive area.  Stated for the
\* calls in which no intersection throws and every outline read was in range.
C11_TrueIffIntersection ==
    ( /\ call.op = "get_stream_recharge"
      /\ streamPc = "ready"
      /\ call.failing = {}
      /\ outOfRange = {} )
    => ( call.ret <=>
            /\ Len(xc) > 0 /\ Len(yc) > 0 /\ Len(Q) > 0
            /\ \E id \in 1 .. Len(Xoutline) :
                   polyXpoly(call.xp, call.yp, Xoutline[id], Youtline[id]).area # R(0) )

\* C12: for a catalog that read_streams loaded without an out-of-range read,
\* get_stream_rate(p) returns, and returns the rate of the first segment in load
\* order whose bounding box holds p and whose stored outline holds p, or zero
\* when there is none; it reads no entry of river_outline that the load did not
\* populate.
C12_RateOfFirstContainingSegment ==
    ( /\ call.op = "get_stream_rate"
      /\ \A e \in outOfRange : e[1] # "outline" )
    => LET p    == <<call.xp[1], call.yp[1]>>
           hits == { i \in 1 .. N_seg :
                       /\ in_box(Catalog, i, p)
                       /\ point_inside(OutlinePoints(Xoutline[i], Youtline[i]), p) }
           first == CHOOSE i \in hits : \A j \in hits : i <= j
       IN  /\ streamPc = "ready"
           /\ \A e \in outOfRange : e[1] # "river_outline"
           /\ stream_rate = IF hits = {} THEN R(0) ELSE Q_rate[first]

\* C13: for every loaded record with an outline, the stored bounding box is the
\* minimum and the maximum of the outline's coordinates, whatever their size:
\* Xmin, Xmax are coordinates of xx with Xmin <= x <= Xmax for every x of xx,
\* and Ymin, Ymax likewise for yy.
C13_BoundingBoxIsMinMax ==
    \A i \in 1 .. Len(Xoutline) :
        Len(Xoutline[i]) > 0 =>
            LET xx == Xoutline[i]
                yy == Youtline[i]
            IN  /\ \E j \in 1 .. Len(xx) : Xmin[i] = xx[j]
                /\ \E j \in 1 .. Len(xx) : Xmax[i] = xx[j]
                /\ \E j \in 1 .. Len(yy) : Ymin[i] = yy[j]
                /\ \E j \in 1 .. Len(yy) : Ymax[i] = yy[j]
                /\ \A j \in 1 .. Len(xx) : RLe(Xmin[i], xx[j]) /\ RLe(xx[j], Xmax[i])
                /\ \A j \in 1 .. Len(yy) : RLe(Ymin[i], yy[j]) /\ RLe(yy[j], Ymax[i])

\* C14: when the call of an iteration is over on every process, each process has
\* written its one shard, named by the iteration and its partition id, there is
\* exactly one .pvtu manifest for the iteration, and the shards the manifest
\* lists are exactly the shards written in the iteration.
C14_OneShardPerProcessOneManifest ==
    (iter > 0 /\ \A p \in Procs : CallOver(p))
    => LET written   == { f.name : f \in { g \in files : g.name[1] = "vtu"
                                                         /\ g.name[2] = iter } }
           manifests == { f \in files : f.name[1] = "pvtu" /\ f.name[2] = iter }
       IN  /\ written = { ShardName(iter, p) : p \in Procs }
           /\ Cardinality(manifests) = 1
           /\ \A m \in manifests : m.shards = written

\* C15: after any sequence of calls that all returned, the stream index is the
\* one the load built: stream_triangles holds exactly 2 * N_seg triangles, each
\* of them is in the tree exactly once, stream_ids is as long as
\* stream_triangles, and stream_ids[k] is the position in the current catalog of
\* the segment whose outline gave triangle k.
C15_IndexBuiltOnce ==
    streamPc = "ready" =>
        /\ Len(stream_triangles) = 2 * N_seg
        /\ Len(stream_ids) = Len(stream_triangles)
        /\ \A k \in 1 .. Len(stream_triangles) :
               Cardinality({ j \in 1 .. Len(stream_tree) : stream_tree[j] = k }) = 1
        /\ \A k \in 1 .. Len(stream_ids) :
               /\ stream_ids[k] \in 1 .. N_seg
               /\ LET xx == Xoutline[stream_ids[k]]
                      yy == Youtline[stream_ids[k]]
                  IN  stream_triangles[k] \in
                          { <<OutlineVertex(xx, yy, 1), OutlineVertex(xx, yy, 2),
                              OutlineVertex(xx, yy, 3)>>,
                            <<OutlineVertex(xx, yy, 2), OutlineVertex(xx, yy, 4),
                              OutlineVertex(xx, yy, 3)>> }

\* C16: for every record with a 4-vertex outline that read_streams has just
\* loaded, the two triangles it appended split the outline's quadrilateral along
\* a diagonal: the two corners they share are opposite corners of the
\* quadrilateral, their third corners lie on opposite sides of the shared edge
\* (no overlap), and their areas add up to the area of the quadrilateral.
C16_TrianglesSplitAlongDiagonal ==
    (call.op = "read_streams" /\ call.ret) =>
        \A i \in 1 .. Len(call.file) :
            Len(Xoutline[i]) = 4 =>
                LET base == Len(stream_triangles) - 2 * Len(call.file)
                    t1   == stream_triangles[base + 2 * i - 1]
                    t2   == stream_triangles[base + 2 * i]
                    quad == Ring(OutlinePoints(Xoutline[i], Youtline[i]))
                    at(v) == CHOOSE k \in 1 .. 4 : quad[k] = v
                    area(t) == RDiv(RAbs(Cross(t[1], t[2], t[3])), R(2))
                    \* t1 = (v0, v1, v2) and t2 = (v1, v3, v2) share v1 and v2
                    v0 == t1[1]
                    v1 == t1[2]
                    v2 == t1[3]
                    v3 == t2[2]
                IN  /\ Len(quad) = 4
                    /\ t2[1] = v1 /\ t2[3] = v2
                    /\ Abs(at(v1) - at(v2)) = 2
                    /\ RLt(RMul(Cross(v1, v2, v0), Cross(v1, v2, v3)), R(0))
                    /\ RAdd(area(t1), area(t2)) = PolygonArea(quad)

\* C17: at the start of SourceInjection in every iteration system_rhs and
\* system_matrix are zero, as setup_system left them, and the system that Solve
\* reads in iteration n holds nothing from an earlier call: every entry added to
\* the right-hand side is a well, stream or boundary-recharge contribution of
\* iteration n, and every entry of the matrix was assembled in iteration n.
C17_SystemFreshEachIteration ==
    \A p \in Procs :
        /\ pc[p] = "add_contributions" =>
               (system_rhs[p] = <<>> /\ system_matrix[p] = <<>>)
        /\ pc[p] = "solve" =>
               /\ \A i \in 1 .. Len(system_rhs[p]) :
                      /\ system_rhs[p][i].iter = iter
                      /\ IsAdd(system_rhs[p][i]) =>
                             system_rhs[p][i].src \in {"well", "stream", "recharge"}
               /\ \A i \in 1 .. Len(system_matrix[p]) : system_matrix[p][i].iter = iter
               /\ Cardinality({ i \in 1 .. Len(system_rhs[p]) :
                                  system_rhs[p][i].src = "well" }) = 1

\* A process is about to solve in a later call, after an earlier one filled the
\* system.
C17_Witness ==
    \E p \in Procs :
        /\ iter > 1
        /\ pc[p] = "solve"
        /\ Len(system_rhs[p]) > 0
        /\ Len(system_matrix[p]) > 0

\* C18: whatever the degree of the finite element, once a process has run the
\* error estimator of refine, the order of the face quadrature the estimator
\* used is exactly one more than the order of the face quadrature assemble used.
C18_EstimatorQuadratureOneHigher ==
    \A p \in Procs :
        quadrature[p].estimate # 0 =>
            /\ quadrature[p].face # 0
            /\ quadrature[p].estimate = quadrature[p].face + 1
====
